---- MODULE Spec2Model ----
(***************************************************************************)
(* Model of the three primitives of rust-hamt-ipld:                        *)
(*   src/src/bitfield.rs    the 256-bit Bitfield and its wire format       *)
(*   src/src/tagged_cid.rs  the tagged (tag 42) link encoding of a Cid     *)
(*   src/src/store.rs       the content-addressed MemoryStore              *)
(*                                                                         *)
(* A u64 word is modelled as the set of its 1-bit positions (a subset of   *)
(* 0..63): TLC's integers are 32 bits wide.  A byte is a number 0..255, a  *)
(* byte string a sequence of bytes.                                        *)
(*                                                                         *)
(* Three specifications share the variables; each leaves the variables of  *)
(* the other two at their initial values:                                  *)
(*   SpecBits   calls of set_bit / clear_bit / set_bits_le / set_bits_leq  *)
(*   SpecWire   serialize / deserialize of Bitfield and TaggedCid          *)
(*   SpecStore  threads calling insert / get / get_bytes on a MemoryStore  *)
(***************************************************************************)
EXTENDS Integers, Sequences, FiniteSets

VARIABLES
    bf,        \* SpecBits: the Bitfield under test, [0..3 -> SUBSET 0..63]
    lastSet,   \* SpecBits: history, the indices whose last call was set_bit
    ret,       \* SpecBits: the value returned by the last set_bits_le(q) call
    nOps,      \* SpecBits: number of set_bit / clear_bit calls made
    wire,      \* SpecWire: the CBOR item handed to a deserializer
    sent,      \* SpecWire: history, the value whose encoding wire is (or None)
    dec,       \* SpecWire: outcome of the last deserialize call
    data,      \* SpecStore: MemoryStore.data, the map TaggedCid -> bytes
    readers,   \* SpecStore: threads holding the RwLock for reading
    writer,    \* SpecStore: the thread holding the RwLock for writing, or None
    pc,        \* SpecStore: each thread's position
    local,     \* SpecStore: each thread's arguments and locals
    result,    \* SpecStore: each thread's last returned value
    returned,  \* SpecStore: history, the <<value, cid>> of every insert that returned Ok
    nCalls     \* SpecStore: number of calls started

bitVars == <<bf, lastSet, ret, nOps>>
wireVars == <<wire, sent, dec>>
storeVars == <<data, readers, writer, pc, local, result, returned, nCalls>>
vars == <<bf, lastSet, ret, nOps, wire, sent, dec,
          data, readers, writer, pc, local, result, returned, nCalls>>

None == [none |-> TRUE]

\* Bounds of the model.
MaxOps == 5          \* set_bit / clear_bit calls in one behaviour of SpecBits
MaxPayload == 35     \* longest byte string handed to a deserializer
MaxCalls == 3        \* store calls started in one behaviour of SpecStore

(***************************************************************************)
(* Helpers on sequences and numbers.                                       *)
(***************************************************************************)
RECURSIVE Pow2(_)
Pow2(n) == IF n = 0 THEN 1 ELSE 2 * Pow2(n - 1)

RECURSIVE SumSet(_)
SumSet(S) == IF S = {} THEN 0
             ELSE LET x == CHOOSE y \in S : TRUE IN x + SumSet(S \ {x})

Take(s, n) == SubSeq(s, 1, n)
Drop(s, n) == SubSeq(s, n + 1, Len(s))

(***************************************************************************)
(* bitwise::word operations on one u64, as used by bitfield.rs.            *)
(***************************************************************************)
U64_MAX == 0..63

WordSetBit(w, b) == w \cup {b}
WordClearBit(w, b) == w \ {b}
WordTestBit(w, b) == b \in w
WordCountOnes(w) == Cardinality(w)
WordSetBitsLeq(w, b) == w \cup (0..b)

(***************************************************************************)
(* Bitfield([u64; 4]) and its methods (bitfield.rs 47-111).                *)
(***************************************************************************)
zero == [i \in 0..3 |-> {}]

clear_bit(self, idx) ==
    LET ai == idx \div 64
        bi == idx % 64
    IN  [self EXCEPT ![ai] = WordClearBit(self[ai], bi)]

test_bit(self, idx) ==
    LET ai == idx \div 64
        bi == idx % 64
    IN  WordTestBit(self[ai], bi)

\* set_bit with the word index dropped (every index lands in word 0).
set_bit_SameWord(self, idx) ==
    LET bi == idx % 64
    IN  [self EXCEPT ![0] = WordSetBit(self[0], bi)]

set_bit(self, idx) ==
    LET ai == idx \div 64
        bi == idx % 64
    IN  [self EXCEPT ![ai] = WordSetBit(self[ai], bi)]

count_ones(self) ==
    WordCountOnes(self[0]) + WordCountOnes(self[1])
        + WordCountOnes(self[2]) + WordCountOnes(self[3])

\* set_bits_leq without the fill of the words below the target word.
set_bits_leq_NoFill(self, bit) ==
    IF bit < 64 THEN
        [self EXCEPT ![0] = WordSetBitsLeq(self[0], bit)]
    ELSE IF bit < 128 THEN
        [self EXCEPT ![1] = WordSetBitsLeq(self[1], bit - 64)]
    ELSE IF bit < 192 THEN
        [self EXCEPT ![2] = WordSetBitsLeq(self[2], bit - 128)]
    ELSE
        [self EXCEPT ![3] = WordSetBitsLeq(self[3], bit - 192)]

set_bits_leq(self, bit) ==
    IF bit < 64 THEN
        [self EXCEPT ![0] = WordSetBitsLeq(self[0], bit)]
    ELSE IF bit < 128 THEN
        [self EXCEPT ![0] = U64_MAX,
                     ![1] = WordSetBitsLeq(self[1], bit - 64)]
    ELSE IF bit < 192 THEN
        [self EXCEPT ![0] = U64_MAX, ![1] = U64_MAX,
                     ![2] = WordSetBitsLeq(self[2], bit - 128)]
    ELSE
        [self EXCEPT ![0] = U64_MAX, ![1] = U64_MAX, ![2] = U64_MAX,
                     ![3] = WordSetBitsLeq(self[3], bit - 192)]

set_bits_le(self, bit) ==
    IF bit = 0 THEN self ELSE set_bits_leq(self, bit - 1)

\* The 256-bit number a Bitfield stands for, as the set of its 1-bit
\* positions: word i holds positions 64*i .. 64*i + 63.
Positions(b) == UNION {{64 * i + k : k \in b[i]} : i \in 0..3}

(***************************************************************************)
(* SpecBits: set_bit / clear_bit on one Bitfield that starts as zero(),    *)
(* and set_bits_le / set_bits_leq applied to a copy of it.                 *)
(***************************************************************************)
\* Indices and bit arguments the calls draw from: the word boundaries and
\* the indices of tests::test_bitfield.
BitIdx == {0, 8, 18, 19, 63, 64, 92, 127, 128, 191, 192, 255}
BitArgs == {0, 1, 63, 64, 100, 127, 128, 192, 255}

SetBit(idx) ==
    /\ nOps < MaxOps
    /\ UNCHANGED <<wireVars, storeVars>>
    /\ bf' = set_bit(bf, idx)
    /\ lastSet' = lastSet \cup {idx}
    /\ ret' = None
    /\ nOps' = nOps + 1

ClearBit(idx) ==
    /\ nOps < MaxOps
    /\ UNCHANGED <<wireVars, storeVars>>
    /\ bf' = clear_bit(bf, idx)
    /\ lastSet' = lastSet \ {idx}
    /\ ret' = None
    /\ nOps' = nOps + 1

SetBitsLeq(bit) ==
    /\ ret' = [op |-> "set_bits_leq", bit |-> bit, self |-> bf,
               out |-> set_bits_leq(bf, bit)]
    /\ UNCHANGED <<bf, lastSet, nOps>>
    /\ UNCHANGED <<wireVars, storeVars>>

SetBitsLe(bit) ==
    /\ ret' = [op |-> "set_bits_le", bit |-> bit, self |-> bf,
               out |-> set_bits_le(bf, bit)]
    /\ UNCHANGED <<bf, lastSet, nOps>>
    /\ UNCHANGED <<wireVars, storeVars>>

BitsNext ==
    \/ \E idx \in BitIdx : SetBit(idx)
    \/ \E idx \in BitIdx : ClearBit(idx)
    \/ \E bit \in BitArgs : SetBitsLeq(bit)
    \/ \E bit \in BitArgs : SetBitsLe(bit)

(***************************************************************************)
(* Outcomes of a fallible call: Ok(val), Err(msg), or a panic (an index    *)
(* out of bounds or a failed assertion aborts the calling thread).         *)
(***************************************************************************)
Ok(v) == [tag |-> "Ok", val |-> v]
Err(m) == [tag |-> "Err", msg |-> m]
Panic == [tag |-> "Panic"]

(***************************************************************************)
(* A CBOR item on the wire: an optional tag (tag is read only when tagged  *)
(* holds), a major type and, for a byte or text string, its payload.       *)
(***************************************************************************)
Untagged(k, b) == [tagged |-> FALSE, tag |-> 0, kind |-> k, bytes |-> b]
Tagged(t, k, b) == [tagged |-> TRUE, tag |-> t, kind |-> k, bytes |-> b]

(***************************************************************************)
(* byteorder::BigEndian on a u64 (bitfield.rs 15-18, 32-35).               *)
(* write_u64 gives 8 bytes, most significant first; read_u64 asserts that  *)
(* the slice holds at least 8 bytes and reads its first 8.                 *)
(***************************************************************************)
WriteU64(w) ==
    [j \in 1..8 |-> SumSet({Pow2(m) : m \in {n \in 0..7 : 8 * (8 - j) + n \in w}})]

ReadU64(bs) ==
    {k \in 0..63 : (bs[8 - (k \div 8)] \div Pow2(k % 8)) % 2 = 1}

(***************************************************************************)
(* impl Serialize / Deserialize for Bitfield (bitfield.rs 8-39).           *)
(***************************************************************************)
Bitfield_serialize(self) ==
    Untagged("bytes",
         WriteU64(self[3]) \o WriteU64(self[2]) \o WriteU64(self[1]) \o WriteU64(self[0]))

Bitfield_deserialize(item) ==
    IF item.kind # "bytes" THEN Err("invalid type: expected bytes")
    ELSE LET bytes == item.bytes
             n == Len(bytes)
         IN  IF n < 8 THEN Panic           \* &bytes[..8]
             ELSE IF n < 16 THEN Panic     \* &bytes[8..16]
             ELSE IF n < 24 THEN Panic     \* &bytes[16..24], &bytes[24..]
             ELSE IF n - 24 < 8 THEN Panic \* read_u64: assert!(8 <= buf.len())
             ELSE Ok([i \in 0..3 |->
                        CASE i = 3 -> ReadU64(SubSeq(bytes, 1, 8))
                          [] i = 2 -> ReadU64(SubSeq(bytes, 9, 16))
                          [] i = 1 -> ReadU64(SubSeq(bytes, 17, 24))
                          [] i = 0 -> ReadU64(Drop(bytes, 24))])

(***************************************************************************)
(* The cid and multihash crates, as tagged_cid.rs and store.rs use them.   *)
(* Every number below is under 128, so each varint is one byte.            *)
(***************************************************************************)
Version == [V0 |-> 0, V1 |-> 1]
Codec == [Raw |-> 85, DagProtobuf |-> 112, DagCBOR |-> 113]   \* 0x55, 0x70, 0x71
Hash == [SHA2256 |-> [code |-> 18, size |-> 32],              \* 0x12
         Blake2b |-> [code |-> 64, size |-> 64]]              \* 0x40
KnownVersions == {Version.V0, Version.V1}
KnownCodecs == {Codec.Raw, Codec.DagProtobuf, Codec.DagCBOR}
KnownHashes == {<<Hash.SHA2256.code, Hash.SHA2256.size>>,
                <<Hash.Blake2b.code, Hash.Blake2b.size>>}

Cid(version, codec, hash) == [version |-> version, codec |-> codec, hash |-> hash]

\* Cid::to_bytes: a version 0 identifier is its multihash alone.
Cid_to_bytes(c) ==
    IF c.version = Version.V0 THEN c.hash ELSE <<c.version, c.codec>> \o c.hash

\* multihash::decode: a known code, and a length byte that is the length of
\* the rest and the digest size of that code.
multihash_decode_ok(h) ==
    /\ Len(h) >= 2
    /\ <<h[1], h[2]>> \in KnownHashes
    /\ Len(h) - 2 = h[2]

\* Cid::from(bytes): the whole input is the identifier.
Cid_from(bytes) ==
    IF Len(bytes) = 34 /\ bytes[1] = Hash.SHA2256.code /\ bytes[2] = Hash.SHA2256.size THEN
        Ok(Cid(Version.V0, Codec.DagProtobuf, bytes))
    ELSE IF Len(bytes) < 2 THEN Err("unexpected end of varint")
    ELSE LET raw_version == bytes[1]
             raw_codec == bytes[2]
             hash == Drop(bytes, 2)
         IN  IF raw_version \notin KnownVersions THEN Err("invalid cid version")
             ELSE IF raw_codec \notin KnownCodecs THEN Err("unknown codec")
             ELSE IF ~multihash_decode_ok(hash) THEN Err("bad multihash")
             ELSE Ok(Cid(raw_version, raw_codec, hash))

(***************************************************************************)
(* TaggedCid (tagged_cid.rs).                                              *)
(***************************************************************************)
TaggedCid_tag == 42

TaggedCid_serialize(self) ==
    Tagged(TaggedCid_tag, "bytes", <<0>> \o Cid_to_bytes(self))

TaggedCid_deserialize(item) ==
    IF ~item.tagged \/ item.kind # "bytes" THEN Err("invalid type: expected a tagged byte string")
    ELSE IF item.tag # TaggedCid_tag THEN Err("Invalid tag")
    ELSE LET bytes == item.bytes
         IN  IF Len(bytes) = 0 THEN Panic   \* bytes[0]
             ELSE IF bytes[1] # 0 THEN Err("invalid link base")
             ELSE LET r == Cid_from(bytes)
                  IN  IF r.tag = "Ok" THEN r ELSE Err(r.msg)

(***************************************************************************)
(* SpecWire: a Bitfield or a TaggedCid is serialized, the item may be      *)
(* altered on the way, and a deserializer is run on what arrives.          *)
(***************************************************************************)
Digest(b) == [i \in 1..Hash.SHA2256.size |-> b]
DigestRamp == [i \in 1..Hash.SHA2256.size |-> i]

SampleBitfields ==
    { zero,
      set_bit(set_bit(set_bit(set_bit(zero, 8), 18), 92), 255),
      [i \in 0..3 |-> U64_MAX],
      set_bit(set_bit(zero, 0), 64) }

SampleCids ==
    { Cid(Version.V1, Codec.DagCBOR, <<Hash.SHA2256.code, Hash.SHA2256.size>> \o Digest(0)),
      Cid(Version.V1, Codec.DagCBOR, <<Hash.SHA2256.code, Hash.SHA2256.size>> \o DigestRamp),
      Cid(Version.V1, Codec.Raw, <<Hash.SHA2256.code, Hash.SHA2256.size>> \o Digest(255)),
      Cid(Version.V1, Codec.DagProtobuf, <<Hash.SHA2256.code, Hash.SHA2256.size>> \o Digest(171)) }

\* Payload lengths tried: around each slice boundary of Bitfield::deserialize.
ResizeLens == {0, 1, 7, 8, 15, 16, 23, 24, 31, 32, 33, MaxPayload}

BitfieldSerialize(b) ==
    /\ wire' = Bitfield_serialize(b)
    /\ sent' = [type |-> "Bitfield", val |-> b]
    /\ dec' = None
    /\ UNCHANGED <<bitVars, storeVars>>

TaggedCidSerialize(c) ==
    /\ wire' = TaggedCid_serialize(c)
    /\ sent' = [type |-> "TaggedCid", val |-> c]
    /\ dec' = None
    /\ UNCHANGED <<bitVars, storeVars>>

\* The payload as serialized is cut or lengthened to n bytes.
Resize(n) ==
    /\ wire # None
    /\ sent # None
    /\ n # Len(wire.bytes)
    /\ wire' = [wire EXCEPT !.bytes =
                  IF n <= Len(@) THEN Take(@, n)
                  ELSE @ \o [i \in 1..(n - Len(@)) |-> 171]]
    /\ sent' = None
    /\ dec' = None
    /\ UNCHANGED <<bitVars, storeVars>>

Retag(t) ==
    /\ wire # None
    /\ ~wire.tagged \/ t # wire.tag
    /\ wire' = [wire EXCEPT !.tagged = TRUE, !.tag = t]
    /\ sent' = None
    /\ dec' = None
    /\ UNCHANGED <<bitVars, storeVars>>

Retype(k) ==
    /\ wire # None
    /\ k # wire.kind
    /\ wire' = [wire EXCEPT !.kind = k]
    /\ sent' = None
    /\ dec' = None
    /\ UNCHANGED <<bitVars, storeVars>>

SetFirstByte(v) ==
    /\ wire # None
    /\ Len(wire.bytes) >= 1
    /\ wire.bytes[1] # v
    /\ wire' = [wire EXCEPT !.bytes[1] = v]
    /\ sent' = None
    /\ dec' = None
    /\ UNCHANGED <<bitVars, storeVars>>

BitfieldDeserialize ==
    /\ wire # None
    /\ dec = None
    /\ dec' = [as |-> "Bitfield", res |-> Bitfield_deserialize(wire)]
    /\ UNCHANGED <<wire, sent>>
    /\ UNCHANGED <<bitVars, storeVars>>

TaggedCidDeserialize ==
    /\ wire # None
    /\ dec = None
    /\ dec' = [as |-> "TaggedCid", res |-> TaggedCid_deserialize(wire)]
    /\ UNCHANGED <<wire, sent>>
    /\ UNCHANGED <<bitVars, storeVars>>

WireNext ==
    \/ \E b \in SampleBitfields : BitfieldSerialize(b)
    \/ \E c \in SampleCids : TaggedCidSerialize(c)
    \/ \E n \in ResizeLens : Resize(n)
    \/ \E t \in {41, TaggedCid_tag, 43} : Retag(t)
    \/ \E k \in {"bytes", "text"} : Retype(k)
    \/ \E v \in {0, 1, 255} : SetFirstByte(v)
    \/ BitfieldDeserialize
    \/ TaggedCidDeserialize

(***************************************************************************)
(* The values stored.  A String is its UTF-8 bytes.  Three shapes:         *)
(*   "pair"  a (String, i32) tuple, as in tests::test_memory               *)
(*   "map"   a HashMap<String, String>, as in tests::test_memory_interop;  *)
(*           entries lists the map's entries in its iteration order, which *)
(*           differs between two maps holding the same entries             *)
(*   "unserializable"  a value whose Serialize implementation fails        *)
(***************************************************************************)
Pair(s, n) == [shape |-> "pair", s |-> s, n |-> n]
Map(entries) == [shape |-> "map", entries |-> entries]
Unserializable == [shape |-> "unserializable"]

str_hello == <<104, 101, 108, 108, 111>>
str_cat == <<99, 97, 116>>
str_dog == <<100, 111, 103>>
str_a == <<97>>
str_b == <<98>>

PairHello3 == Pair(str_hello, 3)
MapCatDog == Map(<< <<str_cat, str_dog>> >>)
MapAB == Map(<< <<str_a, str_dog>>, <<str_b, str_cat>> >>)
MapBA == Map(<< <<str_b, str_cat>>, <<str_a, str_dog>> >>)

Values == {PairHello3, MapCatDog, MapAB, MapBA, Unserializable}
Shapes == {"pair", "map"}

\* Equality of two values as Rust's == sees them: a HashMap is its entries,
\* whatever its iteration order.
Range(f) == {f[i] : i \in DOMAIN f}
LogicalEq(v, w) ==
    /\ v.shape = w.shape
    /\ IF v.shape = "map"
       THEN Len(v.entries) = Len(w.entries) /\ Range(v.entries) = Range(w.entries)
       ELSE v = w

(***************************************************************************)
(* serde_cbor, as store.rs uses it.                                        *)
(*   value::to_value  builds a serde_cbor Value; a map becomes a BTreeMap, *)
(*                    so its entries are ordered by key                    *)
(*   to_vec           the CBOR bytes of a Value                            *)
(*   from_slice::<T>  parses CBOR bytes into shape T                       *)
(* Strings are shorter than 24 bytes and integers lie in 0..23, so every   *)
(* CBOR head is one byte.                                                  *)
(***************************************************************************)
RECURSIVE StrLess(_, _)
StrLess(x, y) ==
    IF Len(y) = 0 THEN FALSE
    ELSE IF Len(x) = 0 THEN TRUE
    ELSE IF x[1] # y[1] THEN x[1] < y[1]
    ELSE StrLess(Tail(x), Tail(y))

RECURSIVE BTreeInsert(_, _)
BTreeInsert(sorted, e) ==
    IF Len(sorted) = 0 THEN <<e>>
    ELSE IF StrLess(e[1], sorted[1][1]) THEN <<e>> \o sorted
    ELSE IF e[1] = sorted[1][1] THEN <<e>> \o Tail(sorted)
    ELSE <<sorted[1]>> \o BTreeInsert(Tail(sorted), e)

RECURSIVE BTreeCollect(_, _)
BTreeCollect(entries, acc) ==
    IF Len(entries) = 0 THEN acc
    ELSE BTreeCollect(Tail(entries), BTreeInsert(acc, entries[1]))

\* to_value keeping the map's iteration order, as serde_cbor::to_vec on the
\* value itself would (the path of _serialize_blake2b).
to_value_IterationOrder(v) ==
    CASE v.shape = "pair" -> Ok([t |-> "Array", s |-> v.s, n |-> v.n])
      [] v.shape = "map" -> Ok([t |-> "Object", entries |-> v.entries])
      [] OTHER -> Err("serialization failed")

to_value(v) ==
    CASE v.shape = "pair" -> Ok([t |-> "Array", s |-> v.s, n |-> v.n])
      [] v.shape = "map" -> Ok([t |-> "Object", entries |-> BTreeCollect(v.entries, <<>>)])
      [] OTHER -> Err("serialization failed")

\* A text string written with the head of a byte string.
EncText_AsBytes(s) == <<64 + Len(s)>> \o s
EncText(s) == <<96 + Len(s)>> \o s
EncInt(n) == <<n>>

RECURSIVE EncEntries(_)
EncEntries(entries) ==
    IF Len(entries) = 0 THEN <<>>
    ELSE EncText(entries[1][1]) \o EncText(entries[1][2]) \o EncEntries(Tail(entries))

to_vec(val) ==
    IF val.t = "Array"
    THEN <<128 + 2>> \o EncText(val.s) \o EncInt(val.n)
    ELSE <<160 + Len(val.entries)>> \o EncEntries(val.entries)

\* One text string read at pos: [ok, val, next].
ParseText(bytes, pos) ==
    IF pos <= Len(bytes) /\ bytes[pos] \in 96..119
          /\ pos + (bytes[pos] - 96) <= Len(bytes)
    THEN [ok |-> TRUE, val |-> SubSeq(bytes, pos + 1, pos + (bytes[pos] - 96)),
          next |-> pos + 1 + (bytes[pos] - 96)]
    ELSE [ok |-> FALSE, val |-> <<>>, next |-> pos]

ParseInt(bytes, pos) ==
    IF pos <= Len(bytes) /\ bytes[pos] \in 0..23
    THEN [ok |-> TRUE, val |-> bytes[pos], next |-> pos + 1]
    ELSE [ok |-> FALSE, val |-> 0, next |-> pos]

RECURSIVE ParseEntries(_, _, _, _)
ParseEntries(bytes, pos, n, acc) ==
    IF n = 0 THEN [ok |-> TRUE, val |-> acc, next |-> pos]
    ELSE LET k == ParseText(bytes, pos)
             v == ParseText(bytes, k.next)
         IN  IF k.ok /\ v.ok
             THEN ParseEntries(bytes, v.next, n - 1, Append(acc, <<k.val, v.val>>))
             ELSE [ok |-> FALSE, val |-> acc, next |-> pos]

from_slice(bytes, shape) ==
    IF Len(bytes) = 0 THEN Err("unexpected end of input")
    ELSE IF shape = "pair" THEN
        IF bytes[1] # 128 + 2 THEN Err("invalid type: expected a tuple of size 2")
        ELSE LET s == ParseText(bytes, 2)
                 n == ParseInt(bytes, s.next)
             IN  IF ~s.ok THEN Err("invalid type: expected a string")
                 ELSE IF ~n.ok THEN Err("invalid type: expected i32")
                 ELSE IF n.next # Len(bytes) + 1 THEN Err("trailing data")
                 ELSE Ok(Pair(s.val, n.val))
    ELSE
        IF bytes[1] \notin 160..183 THEN Err("invalid type: expected a map")
        ELSE LET es == ParseEntries(bytes, 2, bytes[1] - 160, <<>>)
             IN  IF ~es.ok THEN Err("invalid type: expected a string")
                 ELSE IF es.next # Len(bytes) + 1 THEN Err("trailing data")
                 ELSE Ok(Map(es.val))

(***************************************************************************)
(* sha2::Sha256::digest.  The digest function itself is not computed: it   *)
(* is stood for by a function that is injective on byte strings shorter    *)
(* than 32 bytes (the string, a 0x80 byte, zero fill), that is, SHA-256    *)
(* taken as collision-free on the blocks that occur.                       *)
(***************************************************************************)
Sha256(bytes) ==
    [i \in 1..Hash.SHA2256.size |->
        IF i <= Len(bytes) THEN bytes[i]
        ELSE IF i = Len(bytes) + 1 THEN 128 ELSE 0]

(***************************************************************************)
(* serialize_sha256 (store.rs 67-86): Ok([c, bytes]) or the error of       *)
(* to_value.                                                               *)
(***************************************************************************)
\* serialize_sha256 with the multihash head of the other algorithm.
serialize_sha256_Blake2bCode(block) ==
    LET val == to_value(block)
    IN  IF val.tag # "Ok" THEN val
        ELSE LET bytes == to_vec(val.val)
                 h == Sha256(bytes)
                 hash == <<Hash.Blake2b.code, Hash.Blake2b.size>> \o h
             IN  Ok([c |-> Cid(Version.V1, Codec.DagCBOR, hash), bytes |-> bytes])

serialize_sha256(block) ==
    LET val == to_value(block)
    IN  IF val.tag # "Ok" THEN val
        ELSE LET bytes == to_vec(val.val)
                 h == Sha256(bytes)
                 hash == <<Hash.SHA2256.code, Hash.SHA2256.size>> \o h
             IN  Ok([c |-> Cid(Version.V1, Codec.DagCBOR, hash), bytes |-> bytes])

(***************************************************************************)
(* MemoryStore { data: RwLock<HashMap<TaggedCid, Vec<u8>>> } (store.rs     *)
(* 18-44) under concurrent callers.                                        *)
(***************************************************************************)
Threads == {"t1", "t2", "t3"}
NoThread == "none"

\* The identifiers callers ask for: those of the serializable values.
CallCids == {serialize_sha256(v).val.c : v \in {w \in Values : to_value(w).tag = "Ok"}}

\* RwLock::read / RwLock::write return once the lock can be taken.
CanRead == writer = NoThread
\* A write lock granted while readers hold the lock.
CanWrite_IgnoreReaders == writer = NoThread
CanWrite == writer = NoThread /\ readers = {}

\* HashMap::insert and HashMap::get.
HashMap_insert(m, k, v) == [x \in DOMAIN m \cup {k} |-> IF x = k THEN v ELSE m[x]]
Some(v) == [some |-> TRUE, v |-> v]
NoneOpt == [some |-> FALSE]
HashMap_get(m, k) == IF k \in DOMAIN m THEN Some(m[k]) ELSE NoneOpt

\* `?` on a serde_cbor result: crate::error::Error built from the
\* serde_cbor error alone.
ErrorFrom(e) == [tag |-> "Err", msg |-> e.msg, cid |-> None]

\* insert: the call is entered.
InsertCall(t, block) ==
    /\ pc[t] = "idle"
    /\ nCalls < MaxCalls
    /\ nCalls' = nCalls + 1
    /\ pc' = [pc EXCEPT ![t] = "ins_serialize"]
    /\ local' = [local EXCEPT ![t] = [op |-> "insert", block |-> block]]
    /\ result' = [result EXCEPT ![t] = None]
    /\ UNCHANGED <<data, readers, writer, returned>>
    /\ UNCHANGED <<bitVars, wireVars>>

\* insert, line 25: let (c, bytes) = serialize_sha256(block)?;
InsertSerialize(t) ==
    /\ pc[t] = "ins_serialize"
    /\ LET r == serialize_sha256(local[t].block)
       IN  IF r.tag = "Ok"
           THEN /\ local' = [local EXCEPT ![t] =
                        [op |-> "insert", block |-> local[t].block,
                         c |-> r.val.c, bytes |-> r.val.bytes]]
                /\ pc' = [pc EXCEPT ![t] = "ins_lock"]
                /\ UNCHANGED result
           ELSE /\ result' = [result EXCEPT ![t] =
                        [op |-> "insert", block |-> local[t].block, ret |-> ErrorFrom(r)]]
                /\ local' = [local EXCEPT ![t] = None]
                /\ pc' = [pc EXCEPT ![t] = "idle"]
    /\ UNCHANGED <<data, readers, writer, returned, nCalls>>
    /\ UNCHANGED <<bitVars, wireVars>>

\* insert, line 26: self.data.write().unwrap()
InsertLock(t) ==
    /\ pc[t] = "ins_lock"
    /\ CanWrite
    /\ writer' = t
    /\ pc' = [pc EXCEPT ![t] = "ins_store"]
    /\ UNCHANGED <<data, readers, local, result, returned, nCalls>>
    /\ UNCHANGED <<bitVars, wireVars>>

\* insert, lines 26-28: .insert(c.clone(), bytes); the guard is dropped; Ok(c)
InsertStore(t) ==
    /\ pc[t] = "ins_store"
    /\ data' = HashMap_insert(data, local[t].c, local[t].bytes)
    /\ writer' = NoThread
    /\ result' = [result EXCEPT ![t] =
            [op |-> "insert", block |-> local[t].block, ret |-> Ok(local[t].c)]]
    /\ returned' = returned \cup {<<local[t].block, local[t].c>>}
    /\ local' = [local EXCEPT ![t] = None]
    /\ pc' = [pc EXCEPT ![t] = "idle"]
    /\ UNCHANGED <<readers, nCalls>>
    /\ UNCHANGED <<bitVars, wireVars>>

\* get::<B>, line 32: self.data.read().unwrap()
GetLock(t, cid, shape) ==
    /\ pc[t] = "idle"
    /\ nCalls < MaxCalls
    /\ CanRead
    /\ nCalls' = nCalls + 1
    /\ readers' = readers \cup {t}
    /\ pc' = [pc EXCEPT ![t] = "get_read"]
    /\ local' = [local EXCEPT ![t] = [op |-> "get", cid |-> cid, shape |-> shape]]
    /\ result' = [result EXCEPT ![t] = None]
    /\ UNCHANGED <<data, writer, returned>>
    /\ UNCHANGED <<bitVars, wireVars>>

\* get::<B>, lines 32-38: the lookup and from_slice, under the read guard,
\* which lives to the end of the match.
GetRead(t) ==
    /\ pc[t] = "get_read"
    /\ LET found == HashMap_get(data, local[t].cid)
           obj == from_slice(found.v, local[t].shape)
           r == IF ~found.some THEN Ok(NoneOpt)
                ELSE IF obj.tag = "Ok" THEN Ok(Some(obj.val))
                ELSE ErrorFrom(obj)
       IN  result' = [result EXCEPT ![t] =
                [op |-> "get", cid |-> local[t].cid, shape |-> local[t].shape, ret |-> r]]
    /\ readers' = readers \ {t}
    /\ local' = [local EXCEPT ![t] = None]
    /\ pc' = [pc EXCEPT ![t] = "idle"]
    /\ UNCHANGED <<data, writer, returned, nCalls>>
    /\ UNCHANGED <<bitVars, wireVars>>

\* get_bytes, line 42: self.data.read().unwrap()
GetBytesLock(t, cid) ==
    /\ pc[t] = "idle"
    /\ nCalls < MaxCalls
    /\ CanRead
    /\ nCalls' = nCalls + 1
    /\ readers' = readers \cup {t}
    /\ pc' = [pc EXCEPT ![t] = "get_bytes_read"]
    /\ local' = [local EXCEPT ![t] = [op |-> "get_bytes", cid |-> cid]]
    /\ result' = [result EXCEPT ![t] = None]
    /\ UNCHANGED <<data, writer, returned>>
    /\ UNCHANGED <<bitVars, wireVars>>

\* get_bytes, line 42: .get(cid).map(|v| v.to_vec())
GetBytesRead(t) ==
    /\ pc[t] = "get_bytes_read"
    /\ result' = [result EXCEPT ![t] =
            [op |-> "get_bytes", cid |-> local[t].cid,
             ret |-> Ok(HashMap_get(data, local[t].cid))]]
    /\ readers' = readers \ {t}
    /\ local' = [local EXCEPT ![t] = None]
    /\ pc' = [pc EXCEPT ![t] = "idle"]
    /\ UNCHANGED <<data, writer, returned, nCalls>>
    /\ UNCHANGED <<bitVars, wireVars>>

StoreNext ==
    \/ \E t \in Threads, block \in Values : InsertCall(t, block)
    \/ \E t \in Threads : InsertSerialize(t)
    \/ \E t \in Threads : InsertLock(t)
    \/ \E t \in Threads : InsertStore(t)
    \/ \E t \in Threads, cid \in CallCids, shape \in Shapes : GetLock(t, cid, shape)
    \/ \E t \in Threads : GetRead(t)
    \/ \E t \in Threads, cid \in CallCids : GetBytesLock(t, cid)
    \/ \E t \in Threads : GetBytesRead(t)

(***************************************************************************)
(* The specifications.                                                     *)
(***************************************************************************)
Init ==
    /\ bf = zero
    /\ lastSet = {}
    /\ ret = None
    /\ nOps = 0
    /\ wire = None
    /\ sent = None
    /\ dec = None
    /\ data = [k \in {} |-> <<>>]
    /\ readers = {}
    /\ writer = NoThread
    /\ pc = [t \in Threads |-> "idle"]
    /\ local = [t \in Threads |-> None]
    /\ result = [t \in Threads |-> None]
    /\ returned = {}
    /\ nCalls = 0

SpecBits == Init /\ [][BitsNext]_vars
SpecWire == Init /\ [][WireNext]_vars
SpecStore == Init /\ [][StoreNext]_vars

(***************************************************************************)
(* Properties of the MemoryStore, checked under SpecStore.                 *)
(***************************************************************************)
GetReturns(t) == pc[t] = "get_read" /\ pc'[t] = "idle"
GetBytesReturns(t) == pc[t] = "get_bytes_read" /\ pc'[t] = "idle"
InsertStores(t) == pc[t] = "ins_store" /\ pc'[t] = "idle"
InsertFails(t) == pc[t] = "ins_serialize" /\ pc'[t] = "idle"

C2_InsertDeterministicIdempotent ==
    [][/\ \A p, q \in returned' : LogicalEq(p[1], q[1]) => p[2] = q[2]
       /\ \A t \in Threads : InsertStores(t) =>
            \A p \in returned : LogicalEq(p[1], local[t].block) =>
                /\ result'[t].ret = Ok(p[2])
                /\ data' = data]_vars

\* The same map has been inserted in both iteration orders.
C2_Witness ==
    /\ \E c \in CallCids : {<<MapAB, c>>, <<MapBA, c>>} \subseteq returned
    /\ Cardinality(DOMAIN data) = 1

\* C6, as claimed: a get that finds bytes that do not parse into the shape
\* asked for returns an error that carries the identifier asked for, and
\* leaves the store unchanged.
C6_DecodeErrorNamesCid ==
    [][\A t \in Threads :
          (/\ GetReturns(t)
           /\ local[t].cid \in DOMAIN data
           /\ from_slice(data[local[t].cid], local[t].shape).tag # "Ok") =>
              /\ result'[t].ret.tag = "Err"
              /\ result'[t].ret.cid = local[t].cid
              /\ data' = data]_vars

InsertInProgress(t) == pc[t] \in {"ins_serialize", "ins_lock", "ins_store"}
Accessing(t) == t \in readers \/ writer = t

\* C7, as claimed: no state has an insert in progress (canonicalize, digest
\* or store) together with another operation accessing the store.
C7_InsertExcludesForWholeDuration ==
    \A t1, t2 \in Threads :
        (t1 # t2 /\ InsertInProgress(t1)) => ~Accessing(t2)

\* C7, amended: an insert holds the write lock exactly while it stores
\* (not while it canonicalizes and digests), a get or get_bytes holds the
\* read lock exactly while it reads, and no state has a thread holding the
\* write lock together with another thread holding the lock either way.
C7_WriteLockExcludes ==
    /\ \A t \in Threads :
          /\ writer = t <=> pc[t] = "ins_store"
          /\ t \in readers <=> pc[t] \in {"get_read", "get_bytes_read"}
    /\ \A t1, t2 \in Threads :
          (t1 # t2 /\ writer = t1) => ~Accessing(t2)

\* One insert stores while another insert waits for the lock.
C7_Witness ==
    \E t1, t2 \in Threads :
        /\ t1 # t2
        /\ writer = t1
        /\ pc[t2] = "ins_lock"

\* The identifier of a block: version 1, DAG-CBOR, multihash
\* [SHA-256 code, 32] ++ digest.
ContentIdOf(bytes) == Cid(1, 113, <<18, 32>> \o Sha256(bytes))

\* C10: every key is the identifier of the bytes stored under it; a key
\* once present stays, with the same bytes; get, get_bytes and a failed
\* insert leave the store unchanged.
C10_ContentAddressed ==
    [][/\ \A k \in DOMAIN data' : k = ContentIdOf(data'[k])
       /\ \A k \in DOMAIN data : k \in DOMAIN data' /\ data'[k] = data[k]
       /\ \A t \in Threads :
            (GetReturns(t) \/ GetBytesReturns(t) \/ InsertFails(t)) => data' = data]_vars

\* An insert has failed, and a get_bytes has returned, on a store that
\* holds two blocks.
C10_Witness ==
    /\ Cardinality(DOMAIN data) = 2
    /\ \E t \in Threads :
          /\ result[t] # None
          /\ result[t].op = "insert"
          /\ result[t].ret.tag = "Err"

(***************************************************************************)
(* Properties of the wire formats, checked under SpecWire.                 *)
(***************************************************************************)
\* C3, as claimed: decoding the link encoding of c returns c.
C3_LinkRoundTrip ==
    (/\ dec # None
     /\ dec.as = "TaggedCid"
     /\ sent # None
     /\ sent.type = "TaggedCid") => dec.res = Ok(sent.val)

\* C4, as claimed: an untagged byte string of a length other than 32 is
\* refused by Bitfield's deserializer with an error.
C4_BitfieldRejectsWrongLength ==
    (/\ dec # None
     /\ dec.as = "Bitfield"
     /\ ~wire.tagged
     /\ wire.kind = "bytes"
     /\ Len(wire.bytes) # 32) => dec.res.tag = "Err"

\* C5, as claimed: a tagged byte string whose tag is not 42, or whose
\* payload is empty or does not begin with 0, is refused by TaggedCid's
\* deserializer with an error.
C5_LinkDecodeRejects ==
    (/\ dec # None
     /\ dec.as = "TaggedCid"
     /\ wire.tagged
     /\ wire.kind = "bytes"
     /\ \/ wire.tag # 42
        \/ Len(wire.bytes) = 0
        \/ wire.bytes[1] # 0) => dec.res.tag = "Err"

(***************************************************************************)
(* Properties of the Bitfield, checked under SpecBits.                     *)
(***************************************************************************)
\* C8: set_bits_leq(bit) returns the bitmap with every position <= bit set
\* and every other position as it was; set_bits_le(bit) the same for the
\* positions < bit, and set_bits_le(0) returns the bitmap unchanged.
\* set_bits_leq(63) of zero is word 0 all ones and words 1-3 zero;
\* set_bits_leq(255) is all four words all ones.
C8_SetBitsBelow ==
    ret # None =>
        /\ ret.op = "set_bits_leq" =>
              /\ Positions(ret.out) = Positions(ret.self) \cup (0..ret.bit)
              /\ (ret.bit = 63 /\ ret.self = zero) =>
                    ret.out = [i \in 0..3 |-> IF i = 0 THEN 0..63 ELSE {}]
              /\ ret.bit = 255 => ret.out = [i \in 0..3 |-> 0..63]
        /\ ret.op = "set_bits_le" =>
              /\ Positions(ret.out) = Positions(ret.self) \cup (0..(ret.bit - 1))
              /\ ret.bit = 0 => ret.out = ret.self

\* set_bits_leq(100) of a bitmap with bit 255 set and bit 8 clear.
C8_Witness ==
    /\ ret # None
    /\ ret.op = "set_bits_leq"
    /\ ret.bit = 100
    /\ 255 \in Positions(ret.self)
    /\ 8 \notin Positions(ret.self)
    /\ 8 \in Positions(ret.out)

\* C9: after any calls of set_bit and clear_bit on zero(), the bits set are
\* exactly the indices whose last call was set_bit (so a call changes no
\* bit but its own), test_bit(i) tells whether i is one of them, and
\* count_ones() is their number.
C9_BitSemantics ==
    /\ Positions(bf) = lastSet
    /\ \A i \in 0..255 : test_bit(bf, i) <=> i \in lastSet
    /\ count_ones(bf) = Cardinality(lastSet)
    /\ lastSet = {8, 18, 92, 255} => count_ones(bf) = 4

\* Bits 8, 18, 92 and 255 were set and bit 18 cleared: 5 calls, count 3.
C9_Witness ==
    /\ nOps = 5
    /\ lastSet = {8, 92, 255}
    /\ ~test_bit(bf, 18)
    /\ test_bit(bf, 92)
    /\ count_ones(bf) = 3

====
